---- MODULE Spec2Model ----
(***************************************************************************)
(* Rule optimizer of rulerefinery (package rules, optimizer.go): the rule  *)
(* parser, the rule store, Deduplicate with its per-type sort policy, the  *)
(* filter/exclude engine and the multi-dialect exporter.                   *)
(*                                                                         *)
(* Go strings are modelled as sequences of one-character strings, so that  *)
(* Split, Contains, HasPrefix, TrimSpace and byte-wise comparison are      *)
(* computed the way the code computes them.                                *)
(***************************************************************************)
EXTENDS Integers, Sequences, FiniteSets, TLC

VARIABLES
    disk,      \* input rule files on disk: path -> sequence of lines, or NoFile
    config,    \* the (filters, excludes) pairs the configuration can supply
    ruleSets,  \* Optimizer.ruleSets: name -> RuleSet
    fs,        \* files written under the output directory: key -> lines
    last,      \* the last Optimizer call and its result
    named,     \* history: the rule-set names LoadRuleFile was called with
    requested, \* history: name -> the lists SetRulesetFilters was last called with
    nLoad, nSet, \* number of LoadRuleFile and SetRulesetFilters calls so far
    pool,      \* proxy.Pool: proxies, enabled, current (err: NewPool failed)
    requests,  \* history: the proxy each LoadURLWithUA call went through, and its outcome
    ruleFiles, \* ProcessRuleFiles: per rule file, its result and its download history
    tasks,     \* the tasks channel: the rule files no worker has received yet
    worker,    \* the download workers: position, task, retry, err and content
    ctxDone,   \* whether ctx is cancelled
    local,     \* the file at each rule file's local path: "absent", "old" or what saveFile wrote
    process,   \* the ProcessRuleFiles call: overwriteFiles, failedCount and what it returned
    goroutines,      \* LoadAllRules: the number of loadRuleset goroutines at each position
    excludedSources, \* RulesLoader.excludedSources
    source,          \* the kind of the source the rule-sets list: "url" or "file"
    result           \* len(result) when LoadAllRules has returned, -1 before

vars == <<disk, config, ruleSets, fs, last, named, requested, nLoad, nSet>>

poolVars == <<pool, requests>>

clientVars == <<ruleFiles, tasks, worker, ctxDone, local, process>>

loaderVars == <<goroutines, excludedSources, source, result>>

---------------------------------------------------------------------------
(* Bounds of the model                                                     *)

MaxLoad == 2
MaxSet == 1
MaxFsFail == 2
MaxSuffixLen == 3
MaxProxies == 3
MaxRequests == 3
MaxFiles == 2
downloadThreads == 2
MaxRuleSets == 11

---------------------------------------------------------------------------
(* Characters and Go's string primitives                                   *)

Digits == <<"0", "1", "2", "3", "4", "5", "6", "7", "8", "9">>
UpperCase ==
    <<"A", "B", "C", "D", "E", "F", "G", "H", "I", "J", "K", "L", "M",
      "N", "O", "P", "Q", "R", "S", "T", "U", "V", "W", "X", "Y", "Z">>
LowerCase ==
    <<"a", "b", "c", "d", "e", "f", "g", "h", "i", "j", "k", "l", "m",
      "n", "o", "p", "q", "r", "s", "t", "u", "v", "w", "x", "y", "z">>

\* The characters of the model in byte order.
Chars ==
    <<" ", "#", "*", "+", ",", "-", ".", "/">> \o Digits \o
    <<":", ";", "?">> \o UpperCase \o <<"[">> \o LowerCase

CharSet == {Chars[i] : i \in 1..Len(Chars)}

\* Byte order of a character.
Ord == [c \in CharSet |-> CHOOSE i \in 1..Len(Chars) : Chars[i] = c]

\* Go's a < b on strings: byte-wise lexicographic.
RECURSIVE StrLess(_, _)
StrLess(a, b) ==
    IF b = <<>> THEN FALSE
    ELSE IF a = <<>> THEN TRUE
    ELSE IF Head(a) = Head(b) THEN StrLess(Tail(a), Tail(b))
    ELSE Ord[Head(a)] < Ord[Head(b)]

HasPrefix(s, p) == Len(p) <= Len(s) /\ SubSeq(s, 1, Len(p)) = p

HasSuffix(s, p) ==
    Len(p) <= Len(s) /\ SubSeq(s, Len(s) - Len(p) + 1, Len(s)) = p

Contains(s, sub) ==
    \E i \in 1..(Len(s) - Len(sub) + 1) : SubSeq(s, i, i + Len(sub) - 1) = sub

\* strings.Index, 1-based; 0 when sub does not occur (Go's -1).
Index(s, sub) ==
    IF Contains(s, sub)
    THEN CHOOSE i \in 1..(Len(s) - Len(sub) + 1) :
           /\ SubSeq(s, i, i + Len(sub) - 1) = sub
           /\ \A j \in 1..(i - 1) : SubSeq(s, j, j + Len(sub) - 1) # sub
    ELSE 0

RECURSIVE TrimLeft(_)
TrimLeft(s) == IF s # <<>> /\ Head(s) = " " THEN TrimLeft(Tail(s)) ELSE s

RECURSIVE TrimRight(_)
TrimRight(s) ==
    IF s # <<>> /\ s[Len(s)] = " " THEN TrimRight(SubSeq(s, 1, Len(s) - 1)) ELSE s

TrimSpace(s) == TrimRight(TrimLeft(s))

\* strings.Split(s, sep) for a non-empty sep: always at least one part.
RECURSIVE Split(_, _)
Split(s, sep) ==
    LET i == Index(s, sep)
    IN  IF i = 0 THEN <<s>>
        ELSE <<SubSeq(s, 1, i - 1)>> \o Split(SubSeq(s, i + Len(sep), Len(s)), sep)

RECURSIVE Join(_, _)
Join(parts, sep) ==
    IF parts = <<>> THEN <<>>
    ELSE IF Len(parts) = 1 THEN parts[1]
    ELSE parts[1] \o sep \o Join(Tail(parts), sep)

ToUpperChar(c) ==
    IF \E i \in 1..Len(LowerCase) : LowerCase[i] = c
    THEN UpperCase[CHOOSE i \in 1..Len(LowerCase) : LowerCase[i] = c]
    ELSE c

ToLowerChar(c) ==
    IF \E i \in 1..Len(UpperCase) : UpperCase[i] = c
    THEN LowerCase[CHOOSE i \in 1..Len(UpperCase) : UpperCase[i] = c]
    ELSE c

ToUpper(s) == [i \in 1..Len(s) |-> ToUpperChar(s[i])]

ToLower(s) == [i \in 1..Len(s) |-> ToLowerChar(s[i])]

Range(s) == {s[i] : i \in 1..Len(s)}

Comma == <<",">>
Dash == <<"-">>
Slash == <<"/">>
Colon == <<":">>
NoResolve == <<"n", "o", "-", "r", "e", "s", "o", "l", "v", "e">>

---------------------------------------------------------------------------
(* RuleType                                                                *)

RuleTypeDomain == <<"D", "O", "M", "A", "I", "N">>
RuleTypeDomainSuffix == <<"D", "O", "M", "A", "I", "N">> \o Dash \o <<"S", "U", "F", "F", "I", "X">>
RuleTypeDomainKeyword == <<"D", "O", "M", "A", "I", "N">> \o Dash \o <<"K", "E", "Y", "W", "O", "R", "D">>
RuleTypeDomainWildcard == <<"D", "O", "M", "A", "I", "N">> \o Dash \o <<"W", "I", "L", "D", "C", "A", "R", "D">>
RuleTypeDomainRegex == <<"D", "O", "M", "A", "I", "N">> \o Dash \o <<"R", "E", "G", "E", "X">>
RuleTypeIPCIDR == <<"I", "P">> \o Dash \o <<"C", "I", "D", "R">>
RuleTypeIPCIDR6 == <<"I", "P">> \o Dash \o <<"C", "I", "D", "R", "6">>
RuleTypeSrcIPCIDR == <<"S", "R", "C">> \o Dash \o <<"I", "P">> \o Dash \o <<"C", "I", "D", "R">>
RuleTypeSrcIPCIDR6 == <<"S", "R", "C">> \o Dash \o <<"I", "P">> \o Dash \o <<"C", "I", "D", "R", "6">>
RuleTypeIPSuffix == <<"I", "P">> \o Dash \o <<"S", "U", "F", "F", "I", "X">>
RuleTypeSrcIPSuffix == <<"S", "R", "C">> \o Dash \o <<"I", "P">> \o Dash \o <<"S", "U", "F", "F", "I", "X">>
RuleTypeGeoIP == <<"G", "E", "O", "I", "P">>
RuleTypeSrcGeoIP == <<"S", "R", "C">> \o Dash \o <<"G", "E", "O", "I", "P">>
RuleTypeIPASN == <<"I", "P">> \o Dash \o <<"A", "S", "N">>
RuleTypeSrcIPASN == <<"S", "R", "C">> \o Dash \o <<"I", "P">> \o Dash \o <<"A", "S", "N">>
RuleTypeProcessName == <<"P", "R", "O", "C", "E", "S", "S">> \o Dash \o <<"N", "A", "M", "E">>
RuleTypeProcessPath == <<"P", "R", "O", "C", "E", "S", "S">> \o Dash \o <<"P", "A", "T", "H">>
RuleTypeProcessNameRegex == <<"P", "R", "O", "C", "E", "S", "S">> \o Dash \o <<"N", "A", "M", "E">> \o Dash \o <<"R", "E", "G", "E", "X">>
RuleTypeProcessPathRegex == <<"P", "R", "O", "C", "E", "S", "S">> \o Dash \o <<"P", "A", "T", "H">> \o Dash \o <<"R", "E", "G", "E", "X">>
RuleTypeDstPort == <<"D", "S", "T">> \o Dash \o <<"P", "O", "R", "T">>
RuleTypeSrcPort == <<"S", "R", "C">> \o Dash \o <<"P", "O", "R", "T">>
RuleTypeInPort == <<"I", "N">> \o Dash \o <<"P", "O", "R", "T">>
RuleTypeGeoSite == <<"G", "E", "O", "S", "I", "T", "E">>
RuleTypeNetwork == <<"N", "E", "T", "W", "O", "R", "K">>
RuleTypeUid == <<"U", "I", "D">>
RuleTypeInType == <<"I", "N">> \o Dash \o <<"T", "Y", "P", "E">>
RuleTypeInUser == <<"I", "N">> \o Dash \o <<"U", "S", "E", "R">>
RuleTypeInName == <<"I", "N">> \o Dash \o <<"N", "A", "M", "E">>
RuleTypeDSCP == <<"D", "S", "C", "P">>
RuleTypeRuleSet == <<"R", "U", "L", "E">> \o Dash \o <<"S", "E", "T">>
RuleTypeSubRules == <<"S", "U", "B">> \o Dash \o <<"R", "U", "L", "E">>
RuleTypeMatch == <<"M", "A", "T", "C", "H">>
RuleTypeFinal == <<"F", "I", "N", "A", "L">>

\* The closed vocabulary of the const block.
RuleTypes ==
    { RuleTypeDomain, RuleTypeDomainSuffix, RuleTypeDomainKeyword,
      RuleTypeDomainWildcard, RuleTypeDomainRegex, RuleTypeIPCIDR,
      RuleTypeIPCIDR6, RuleTypeSrcIPCIDR, RuleTypeSrcIPCIDR6, RuleTypeIPSuffix,
      RuleTypeSrcIPSuffix, RuleTypeGeoIP, RuleTypeSrcGeoIP, RuleTypeIPASN,
      RuleTypeSrcIPASN, RuleTypeProcessName, RuleTypeProcessPath,
      RuleTypeProcessNameRegex, RuleTypeProcessPathRegex, RuleTypeDstPort,
      RuleTypeSrcPort, RuleTypeInPort, RuleTypeGeoSite, RuleTypeNetwork,
      RuleTypeUid, RuleTypeInType, RuleTypeInUser, RuleTypeInName, RuleTypeDSCP,
      RuleTypeRuleSet, RuleTypeSubRules, RuleTypeMatch, RuleTypeFinal }

---------------------------------------------------------------------------
(* ParseRule                                                               *)

SkipLine == [kind |-> "skip", Type |-> <<>>, Payload |-> <<>>, Options |-> <<>>]
ErrorLine == [kind |-> "error", Type |-> <<>>, Payload |-> <<>>, Options |-> <<>>]

\* The line after the comment checks: a leading "-" list marker is removed.
StripListMarker(line) ==
    IF HasPrefix(line, Dash) THEN TrimSpace(Tail(line)) ELSE line

\* The YAML-field heuristic on the (stripped) line.
IsYAMLField(line) ==
    /\ Contains(line, Colon)
    /\ ~Contains(line, Comma)
    /\ LET beforeColon == TrimSpace(SubSeq(line, 1, Index(line, Colon) - 1))
       IN  ~Contains(beforeColon, <<" ">>) /\ ~Contains(beforeColon, Comma)

IsFileNameLine(line) ==
    \/ HasSuffix(line, <<".", "l", "i", "s", "t">>)
    \/ HasSuffix(line, <<".", "y", "a", "m", "l">>)
    \/ HasSuffix(line, <<".", "t", "x", "t">>)
    \/ HasSuffix(line, <<".", "c", "o", "n", "f">>)

\* The split line: len(parts) < 2 is an error, otherwise a rule.
MakeRule(parts) ==
    IF Len(parts) < 2 THEN ErrorLine
    ELSE [ kind |-> "rule",
           Type |-> ToUpper(TrimSpace(parts[1])),
           Payload |-> TrimSpace(parts[2]),
           Options |-> IF Len(parts) > 2 THEN TrimSpace(parts[3]) ELSE <<>> ]

\* ParseRule from the YAML-field check on; line has lost its list marker.
ParseStripped(line) ==
    IF line = <<>> THEN SkipLine
    ELSE IF IsYAMLField(line) THEN SkipLine
    ELSE IF ~Contains(line, Comma) THEN SkipLine
    ELSE IF IsFileNameLine(line) THEN SkipLine
    ELSE MakeRule(Split(line, Comma))

\* ParseRule after the first TrimSpace.
ParseTrimmed(line) ==
    IF line = <<>> THEN SkipLine
    ELSE IF \/ HasPrefix(line, <<"#">>)
            \/ HasPrefix(line, <<";">>)
            \/ HasPrefix(line, <<"/", "/">>)
            \/ HasPrefix(line, <<"-", "-", "-">>)
    THEN SkipLine
    ELSE ParseStripped(StripListMarker(line))

ParseRule(raw) == ParseTrimmed(TrimSpace(raw))

---------------------------------------------------------------------------
(* Rule store: LoadRuleFile and SetRulesetFilters                          *)

RuleSetNames == {"ads", "google"}
Paths == {"f1", "f2"}

\* The Optimizer is still being filled: Deduplicate has not been called.
Loading == last.op \in {"NewOptimizer", "LoadRuleFile", "SetRulesetFilters"}

NewRuleSet(name) ==
    [Name |-> name, Rules |-> <<>>, Filters |-> <<>>, Excludes |-> <<>>]

\* ruleSet.Rules[rule.Type] = append(ruleSet.Rules[rule.Type], payload)
AppendRule(Rules, rule) ==
    LET payload == IF rule.Options # <<>>
                   THEN rule.Payload \o Comma \o rule.Options
                   ELSE rule.Payload
    IN  IF rule.Type \in DOMAIN Rules
        THEN [Rules EXCEPT ![rule.Type] = Append(@, payload)]
        ELSE (rule.Type :> <<payload>>) @@ Rules

\* The scanner loop: lines that are skipped or malformed change nothing.
RECURSIVE LoadLines(_, _)
LoadLines(Rules, lines) ==
    IF lines = <<>> THEN Rules
    ELSE LET rule == ParseRule(Head(lines))
         IN  LoadLines(IF rule.kind = "rule" THEN AppendRule(Rules, rule) ELSE Rules,
                       Tail(lines))

\* The store after a LoadRuleFile call on a file that opens.
LoadInto(store, content, name) ==
    LET withSet == IF name \in DOMAIN store
                   THEN store
                   ELSE (name :> NewRuleSet(name)) @@ store
    IN  [withSet EXCEPT ![name].Rules = LoadLines(@, content)]

\* Mutant: the rule-set is created before the file is opened.
LoadRuleFile_CreatesFirst(path, name) ==
    /\ Loading
    /\ nLoad < MaxLoad
    /\ nLoad' = nLoad + 1
    /\ IF disk[path].ok
       THEN /\ ruleSets' = LoadInto(ruleSets, disk[path].lines, name)
            /\ last' = [op |-> "LoadRuleFile", name |-> name, err |-> FALSE]
       ELSE /\ ruleSets' = LoadInto(ruleSets, <<>>, name)
            /\ last' = [op |-> "LoadRuleFile", name |-> name, err |-> TRUE]
    /\ named' = named \cup {name}
    /\ UNCHANGED <<disk, config, fs, requested, nSet>>

LoadRuleFile(path, name) ==
    /\ Loading
    /\ nLoad < MaxLoad
    /\ nLoad' = nLoad + 1
    /\ IF disk[path].ok
       THEN /\ ruleSets' = LoadInto(ruleSets, disk[path].lines, name)
            /\ last' = [op |-> "LoadRuleFile", name |-> name, err |-> FALSE]
       ELSE /\ ruleSets' = ruleSets
            /\ last' = [op |-> "LoadRuleFile", name |-> name, err |-> TRUE]
    /\ named' = named \cup {name}
    /\ UNCHANGED <<disk, config, fs, requested, nSet>>

SetRulesetFilters(name, filters, excludes) ==
    /\ Loading
    /\ nSet < MaxSet
    /\ nSet' = nSet + 1
    /\ IF name \in DOMAIN ruleSets
       THEN /\ ruleSets' = [ruleSets EXCEPT ![name].Filters = filters,
                                            ![name].Excludes = excludes]
            /\ last' = [op |-> "SetRulesetFilters", name |-> name, err |-> FALSE]
       ELSE /\ ruleSets' = ruleSets
            /\ last' = [op |-> "SetRulesetFilters", name |-> name, err |-> TRUE]
    /\ requested' = (name :> [filters |-> filters, excludes |-> excludes]) @@ requested
    /\ UNCHANGED <<disk, config, fs, named, nLoad>>

---------------------------------------------------------------------------
(* Deduplicate and the sort policy                                         *)

CIDRTypes ==
    { RuleTypeIPCIDR, RuleTypeIPCIDR6, RuleTypeSrcIPCIDR, RuleTypeSrcIPCIDR6,
      RuleTypeIPSuffix, RuleTypeSrcIPSuffix }

DigitVal(c) == Ord[c] - Ord["0"]

IsDigit(c) == \E i \in 1..Len(Digits) : Digits[i] = c

\* The decimal value of the leading digits of s, continuing from acc.
RECURSIVE ScanDigits(_, _)
ScanDigits(s, acc) ==
    IF s # <<>> /\ IsDigit(Head(s))
    THEN ScanDigits(Tail(s), acc * 10 + DigitVal(Head(s)))
    ELSE acc

\* fmt.Sscanf(mask, "%d", &maskLen): leading spaces skipped, optional sign,
\* then digits; maskLen keeps 0 when nothing is scanned.
ScanInt(mask) ==
    LET s == TrimLeft(mask)
    IN  IF s # <<>> /\ Head(s) = "-" THEN 0 - ScanDigits(Tail(s), 0)
        ELSE IF s # <<>> /\ Head(s) = "+" THEN ScanDigits(Tail(s), 0)
        ELSE ScanDigits(s, 0)

extractCIDRMask(cidr) ==
    LET cidrPart == Split(cidr, Comma)[1]
        idx == Index(cidrPart, Slash)
    IN  IF idx # 0 THEN ScanInt(SubSeq(cidrPart, idx + 1, Len(cidrPart)))
        ELSE IF Contains(cidrPart, Colon) THEN 128
        ELSE 32

\* Mutant: the /32 of IPv4 is the default for every address.
normalizeCIDR_AlwaysV4(rule) ==
    LET parts == Split(rule, Comma)
    IN  IF Contains(parts[1], Slash) THEN rule
        ELSE Join([parts EXCEPT ![1] = parts[1] \o <<"/", "3", "2">>], Comma)

normalizeCIDR(rule) ==
    LET parts == Split(rule, Comma)
        cidrPart == parts[1]
        defaultMask == IF Contains(cidrPart, Colon)
                       THEN <<"/", "1", "2", "8">>
                       ELSE <<"/", "3", "2">>
    IN  IF Contains(cidrPart, Slash) THEN rule
        ELSE Join([parts EXCEPT ![1] = cidrPart \o defaultMask], Comma)

\* len(a) != len(b) ? len(a) < len(b) : a < b
LessLenThenLex(a, b) ==
    IF Len(a) # Len(b) THEN Len(a) < Len(b) ELSE StrLess(a, b)

LessDomainSuffix(a, b) ==
    LET shortI == Len(a) >= 2 /\ Len(a) <= 5
        shortJ == Len(b) >= 2 /\ Len(b) <= 5
    IN  IF shortI # shortJ THEN shortI
        ELSE IF Len(a) # Len(b) THEN Len(a) < Len(b)
        ELSE StrLess(a, b)

LessCIDR(a, b) ==
    LET maskI == extractCIDRMask(a)
        maskJ == extractCIDRMask(b)
    IN  IF maskI # maskJ THEN maskI > maskJ ELSE StrLess(a, b)

\* A variant that compares the range starts as numbers.
LessPort_Numeric(a, b) ==
    ScanDigits(Split(a, Dash)[1], 0) < ScanDigits(Split(b, Dash)[1], 0)

LessPort(a, b) == StrLess(Split(a, Dash)[1], Split(b, Dash)[1])

TrimPrefix(s, p) == IF HasPrefix(s, p) THEN SubSeq(s, Len(p) + 1, Len(s)) ELSE s

LessASN(a, b) == StrLess(TrimPrefix(a, <<"A", "S">>), TrimPrefix(b, <<"A", "S">>))

\* The priority-map comparator of NETWORK and IN-TYPE; prio[k] is the k-th key.
LessPriority(prio, a, b) ==
    LET okI == \E k \in 1..Len(prio) : prio[k] = ToLower(a)
        okJ == \E k \in 1..Len(prio) : prio[k] = ToLower(b)
        pi == CHOOSE k \in 1..Len(prio) : prio[k] = ToLower(a)
        pj == CHOOSE k \in 1..Len(prio) : prio[k] = ToLower(b)
    IN  IF okI /\ okJ /\ pi # pj THEN pi < pj ELSE StrLess(a, b)

NetworkPriority == << <<"t", "c", "p">>, <<"u", "d", "p">>, <<"i", "c", "m", "p">> >>
InTypePriority ==
    << <<"h", "t", "t", "p">>, <<"h", "t", "t", "p", "s">>,
       <<"s", "o", "c", "k", "s", "5">> >>

\* The comparator sortRulesByType hands to the sort for ruleType.
Less(ruleType, a, b) ==
    CASE ruleType = RuleTypeDomain -> LessLenThenLex(a, b)
      [] ruleType = RuleTypeDomainSuffix -> LessDomainSuffix(a, b)
      [] ruleType \in {RuleTypeDomainKeyword, RuleTypeDomainWildcard} ->
           LessLenThenLex(a, b)
      [] ruleType \in {RuleTypeDomainRegex, RuleTypeProcessNameRegex,
                       RuleTypeProcessPathRegex} -> LessLenThenLex(a, b)
      [] ruleType \in CIDRTypes -> LessCIDR(a, b)
      [] ruleType \in {RuleTypeProcessName, RuleTypeProcessPath} ->
           LessLenThenLex(a, b)
      [] ruleType \in {RuleTypeDstPort, RuleTypeSrcPort, RuleTypeInPort} ->
           LessPort(a, b)
      [] ruleType \in {RuleTypeIPASN, RuleTypeSrcIPASN} -> LessASN(a, b)
      [] ruleType = RuleTypeNetwork -> LessPriority(NetworkPriority, a, b)
      [] ruleType = RuleTypeInType -> LessPriority(InTypePriority, a, b)
      [] OTHER -> StrLess(a, b)

\* The inner loop of the insertion sort: data[j] moves left while it is less.
RECURSIVE Bubble(_, _, _)
Bubble(ruleType, data, j) ==
    IF j > 1 /\ Less(ruleType, data[j], data[j - 1])
    THEN Bubble(ruleType,
                [data EXCEPT ![j] = data[j - 1], ![j - 1] = data[j]], j - 1)
    ELSE data

\* sort.Slice / sort.Strings on a short slice: Go sorts slices of at most 12
\* elements by insertion sort, which keeps the incoming order of entries the
\* comparator does not separate.
RECURSIVE InsertionSort(_, _, _)
InsertionSort(ruleType, data, i) ==
    IF i > Len(data) THEN data
    ELSE InsertionSort(ruleType, Bubble(ruleType, data, i), i + 1)

sortRulesByType(ruleType, rules) ==
    IF ruleType \in CIDRTypes
    THEN InsertionSort(ruleType, [i \in 1..Len(rules) |-> normalizeCIDR(rules[i])], 2)
    ELSE InsertionSort(ruleType, rules, 2)

\* Every order in which a Go map with key set S can be ranged over.
RECURSIVE MapOrders(_)
MapOrders(S) ==
    IF S = {} THEN {<<>>}
    ELSE UNION {{<<x>> \o p : p \in MapOrders(S \ {x})} : x \in S}

\* One type of one rule-set: the set of distinct strings, ranged over in any
\* map order, then sorted.
DedupType(ruleType, rules) ==
    {sortRulesByType(ruleType, deduped) : deduped \in MapOrders(Range(rules))}

RECURSIVE DedupRules(_, _)
DedupRules(Rules, types) ==
    IF types = {} THEN {<<>>}
    ELSE LET t == CHOOSE t \in types : TRUE
         IN  {(t :> sorted) @@ rest :
                sorted \in DedupType(t, Rules[t]),
                rest \in DedupRules(Rules, types \ {t})}

RECURSIVE DedupStore(_, _)
DedupStore(store, names) ==
    IF names = {} THEN {<<>>}
    ELSE LET n == CHOOSE n \in names : TRUE
         IN  {(n :> [store[n] EXCEPT !.Rules = rs]) @@ rest :
                rs \in DedupRules(store[n].Rules, DOMAIN store[n].Rules),
                rest \in DedupStore(store, names \ {n})}

Deduplicate ==
    /\ last.op # "Export"
    /\ ruleSets' \in DedupStore(ruleSets, DOMAIN ruleSets)
    /\ last' = [op |-> "Deduplicate", name |-> "", err |-> FALSE]
    /\ UNCHANGED <<disk, config, fs, named, requested, nLoad, nSet>>

---------------------------------------------------------------------------
(* Filter/exclude engine                                                   *)

\* A "**" at position i that stands alone as a path segment of the pattern.
IsDoubleStar(p, i) ==
    /\ i + 1 <= Len(p)
    /\ p[i + 1] = "*"
    /\ (i = 1 \/ p[i - 1] = "/")
    /\ (i + 1 = Len(p) \/ p[i + 2] = "/")

\* Whether p[i..] matches s[j..], for patterns over literals, "?", "*" and
\* "**": "*" and "?" never match the separator "/", a "**" segment matches
\* any number of whole segments, or the rest of the name when it ends the
\* pattern.
RECURSIVE GlobAt(_, _, _, _)
GlobAt(p, i, s, j) ==
    IF i > Len(p) THEN j > Len(s)
    ELSE IF p[i] = "*"
    THEN IF IsDoubleStar(p, i)
         THEN IF i + 1 = Len(p) THEN TRUE
              ELSE \/ GlobAt(p, i + 3, s, j)
                   \/ \E k \in j..Len(s) : s[k] = "/" /\ GlobAt(p, i + 3, s, k + 1)
         ELSE \E k \in j..(Len(s) + 1) :
                  /\ \A m \in j..(k - 1) : s[m] # "/"
                  /\ GlobAt(p, i + 1, s, k)
    ELSE IF p[i] = "?"
    THEN j <= Len(s) /\ s[j] # "/" /\ GlobAt(p, i + 1, s, j + 1)
    ELSE j <= Len(s) /\ s[j] = p[i] /\ GlobAt(p, i + 1, s, j + 1)

\* A character class that never closes is the malformed pattern of the model
\* (the model's alphabet has no "]").
BadPattern(p) == Contains(p, <<"[">>)

\* doublestar.Match(pattern, name): "error" stands for ErrBadPattern.
Match(pattern, name) ==
    IF BadPattern(pattern) THEN "error"
    ELSE IF GlobAt(pattern, 1, name, 1) THEN "match"
    ELSE "nomatch"

\* fmt.Sprintf("%s,%s", ruleType, rule)
FullRule(ruleType, rule) == ruleType \o Comma \o rule

\* The inner loop over the patterns: empty patterns are skipped, a pattern
\* matches when Match returns true without an error.
AnyPatternMatches(patterns, fullRule) ==
    \E i \in 1..Len(patterns) :
        /\ patterns[i] # <<>>
        /\ Match(patterns[i], fullRule) = "match"

\* Mutant: with no filter configured nothing passes (default deny).
ApplyFilters_DefaultDeny(rules, ruleType, filters) ==
    LET matched(rule) == AnyPatternMatches(filters, FullRule(ruleType, rule))
    IN  SelectSeq(rules, matched)

\* Step 1: with filters, only the rules that match one of them are kept.
ApplyFilters(rules, ruleType, filters) ==
    LET matched(rule) == AnyPatternMatches(filters, FullRule(ruleType, rule))
    IN  IF Len(filters) > 0 THEN SelectSeq(rules, matched) ELSE rules

\* Step 2: with excludes, the rules that match one of them are dropped.
ApplyExcludes(rules, ruleType, excludes) ==
    LET kept(rule) == ~AnyPatternMatches(excludes, FullRule(ruleType, rule))
    IN  IF Len(excludes) > 0 THEN SelectSeq(rules, kept) ELSE rules

\* Mutant: a rule that matches a filter is kept whatever the excludes say.
applyRuleFilters_FilterWins(rules, ruleType, filters, excludes) ==
    IF Len(rules) = 0 THEN rules
    ELSE IF Len(filters) > 0 THEN ApplyFilters(rules, ruleType, filters)
    ELSE ApplyExcludes(rules, ruleType, excludes)

applyRuleFilters(rules, ruleType, filters, excludes) ==
    IF Len(rules) = 0 THEN rules
    ELSE ApplyExcludes(ApplyFilters(rules, ruleType, filters), ruleType, excludes)

---------------------------------------------------------------------------
(* Exporter                                                                *)

Dialects ==
    <<"domain", "ipcidr", "classical", "classical_no_resolve",
      "classical_all", "classical_all_no_resolve">>

\* One line of an output file.  k is the kind of line: "comment" (a header
\* line), "payload" (the YAML "payload:" line), "section" (the per-type
\* comment with its count), "rule" (a rule line: text is what is written,
\* type and src the stored entry it was made from), "placeholder" and
\* "payload_empty" (the lines of an empty file).
Line(k, t, src, text, n) ==
    [k |-> k, type |-> t, src |-> src, text |-> text, count |-> n]

CommentLine == Line("comment", <<>>, <<>>, <<>>, 0)
PayloadLine == Line("payload", <<>>, <<>>, <<>>, 0)
PlaceholderLine == Line("placeholder", <<>>, <<>>, <<>>, 0)
PayloadEmptyLine == Line("payload_empty", <<>>, <<>>, <<>>, 0)

\* The comma-separated parts of rule other than the no-resolve token.
StripNoResolve(rule) ==
    LET keep(part) == TrimSpace(part) # NoResolve
    IN  Join(SelectSeq(Split(rule, Comma), keep), Comma)

\* Mutant: +. is prepended whatever the entry starts with.
SuffixForm_AlwaysPrepend(rule) == <<"+", ".">> \o rule

\* The +. wildcard form of a DOMAIN-SUFFIX entry.
SuffixForm(rule) ==
    IF HasPrefix(rule, <<"+", ".">>) THEN rule
    ELSE IF HasPrefix(rule, <<".">>) THEN <<"+">> \o rule
    ELSE <<"+", ".">> \o rule

\* What applyRuleFilters returns for the stored rules of ruleType.
Filtered(ruleSet, ruleType) ==
    applyRuleFilters(ruleSet.Rules[ruleType], ruleType,
                     ruleSet.Filters, ruleSet.Excludes)

\* processedRule of exportClassical.
ProcessedRule(ruleType, rule, withNoResolve) ==
    IF ruleType = RuleTypeIPCIDR \/ ruleType = RuleTypeIPCIDR6
    THEN IF withNoResolve
         THEN IF ~Contains(rule, NoResolve) THEN rule \o Comma \o NoResolve ELSE rule
         ELSE StripNoResolve(rule)
    ELSE rule

\* The text written for a stored rule: as stored or in +. form in the domain
\* files, without no-resolve in the ipcidr files, as TYPE,processedRule in
\* the classical files.
TextOf(form, ruleType, rule) ==
    CASE form = "verbatim" -> rule
      [] form = "suffix" -> SuffixForm(rule)
      [] form = "strip" -> StripNoResolve(rule)
      [] form = "classical" -> FullRule(ruleType, ProcessedRule(ruleType, rule, FALSE))
      [] form = "classical_no_resolve" ->
             FullRule(ruleType, ProcessedRule(ruleType, rule, TRUE))

\* The filtered rules of ruleType as rule lines.
RuleLines(ruleType, filtered, form) ==
    [i \in 1..Len(filtered) |->
        Line("rule", ruleType, filtered[i], TextOf(form, ruleType, filtered[i]), 0)]

\* What one type contributes to domainRules of exportDomain.
DomainEntriesOf(ruleSet, ruleType) ==
    IF ruleType \notin DOMAIN ruleSet.Rules THEN <<>>
    ELSE IF ruleType = RuleTypeDomainSuffix
    THEN RuleLines(ruleType, Filtered(ruleSet, ruleType), "suffix")
    ELSE RuleLines(ruleType, Filtered(ruleSet, ruleType), "verbatim")

\* Mutant: the keyword kind is exported to the domain file too.
domainTypes_WithKeyword ==
    <<RuleTypeDomain, RuleTypeDomainSuffix, RuleTypeDomainKeyword>>

domainTypes == <<RuleTypeDomain, RuleTypeDomainSuffix>>

\* Mutant: the source variant is exported to the ipcidr file too.
ipTypes_WithSrc == <<RuleTypeIPCIDR, RuleTypeIPCIDR6, RuleTypeSrcIPCIDR>>

ipTypes == <<RuleTypeIPCIDR, RuleTypeIPCIDR6>>

\* What one type contributes to ipcidrRules of exportIPCIDR.
IPCIDREntriesOf(ruleSet, ruleType) ==
    IF ruleType \notin DOMAIN ruleSet.Rules \/ Len(ruleSet.Rules[ruleType]) = 0
    THEN <<>>
    ELSE RuleLines(ruleType, Filtered(ruleSet, ruleType), "strip")

\* The entries of the listed types, in order.
RECURSIVE PlainEntriesFrom(_, _, _)
PlainEntriesFrom(ruleSet, dialect, types) ==
    IF types = <<>> THEN <<>>
    ELSE (IF dialect = "domain"
          THEN DomainEntriesOf(ruleSet, Head(types))
          ELSE IPCIDREntriesOf(ruleSet, Head(types)))
         \o PlainEntriesFrom(ruleSet, dialect, Tail(types))

\* domainRules of exportDomain, ipcidrRules of exportIPCIDR.
PlainEntries(ruleSet, dialect) ==
    PlainEntriesFrom(ruleSet, dialect,
                     IF dialect = "domain" THEN domainTypes ELSE ipTypes)

\* Mutant: an empty dialect gets no placeholder.
PlainFiles_NoPlaceholder(entries) ==
    [yaml |-> <<PayloadLine>> \o entries, list |-> entries]

\* The two files of the domain and of the ipcidr dialect.
PlainFiles(entries) ==
    IF Len(entries) = 0
    THEN [yaml |-> <<PlaceholderLine, PayloadEmptyLine>>, list |-> <<PlaceholderLine>>]
    ELSE [yaml |-> <<PayloadLine>> \o entries, list |-> entries]

domainListTypes == {RuleTypeDomain, RuleTypeDomainSuffix}
ipcidrListTypes == {RuleTypeIPCIDR, RuleTypeIPCIDR6}

\* A variant of the traversal order that visits the IP kinds first.
orderedTypes_IPFirst ==
    << RuleTypeIPCIDR, RuleTypeIPCIDR6, RuleTypeSrcIPCIDR, RuleTypeSrcIPCIDR6,
       RuleTypeIPSuffix, RuleTypeSrcIPSuffix, RuleTypeIPASN, RuleTypeSrcIPASN,
       RuleTypeDomain, RuleTypeDomainSuffix, RuleTypeDomainKeyword,
       RuleTypeDomainWildcard, RuleTypeDomainRegex,
       RuleTypeGeoIP, RuleTypeSrcGeoIP, RuleTypeGeoSite,
       RuleTypeProcessName, RuleTypeProcessPath, RuleTypeProcessNameRegex,
       RuleTypeProcessPathRegex,
       RuleTypeDstPort, RuleTypeSrcPort, RuleTypeInPort,
       RuleTypeNetwork, RuleTypeUid, RuleTypeInType, RuleTypeInUser,
       RuleTypeInName, RuleTypeDSCP,
       RuleTypeRuleSet, RuleTypeSubRules >>

orderedTypes ==
    << RuleTypeDomain, RuleTypeDomainSuffix, RuleTypeDomainKeyword,
       RuleTypeDomainWildcard, RuleTypeDomainRegex,
       RuleTypeIPCIDR, RuleTypeIPCIDR6, RuleTypeSrcIPCIDR, RuleTypeSrcIPCIDR6,
       RuleTypeIPSuffix, RuleTypeSrcIPSuffix, RuleTypeIPASN, RuleTypeSrcIPASN,
       RuleTypeGeoIP, RuleTypeSrcGeoIP, RuleTypeGeoSite,
       RuleTypeProcessName, RuleTypeProcessPath, RuleTypeProcessNameRegex,
       RuleTypeProcessPathRegex,
       RuleTypeDstPort, RuleTypeSrcPort, RuleTypeInPort,
       RuleTypeNetwork, RuleTypeUid, RuleTypeInType, RuleTypeInUser,
       RuleTypeInName, RuleTypeDSCP,
       RuleTypeRuleSet, RuleTypeSubRules >>

\* Mutant: the plain IP-CIDR kinds are left out of both reduced files.
ClassicalSkips_AlwaysIPCIDR(ruleSet, ruleType, includeAll, withNoResolve) ==
    \/ ruleType \notin DOMAIN ruleSet.Rules
    \/ Len(ruleSet.Rules[ruleType]) = 0
    \/ /\ ~includeAll
       /\ ruleType \in {RuleTypeDomain, RuleTypeDomainSuffix,
                        RuleTypeIPCIDR, RuleTypeIPCIDR6}

\* Whether the loop of exportClassical passes over ruleType before filtering.
ClassicalSkips(ruleSet, ruleType, includeAll, withNoResolve) ==
    \/ ruleType \notin DOMAIN ruleSet.Rules
    \/ Len(ruleSet.Rules[ruleType]) = 0
    \/ /\ ~includeAll
       /\ \/ ruleType \in domainListTypes
          \/ ruleType \in ipcidrListTypes /\ ~withNoResolve

\* The section of a type whose filtered rules are `filtered`: its count
\* comment and its rule lines; nothing when filtering left no rule.
SectionLines(ruleType, filtered, withNoResolve) ==
    IF Len(filtered) = 0 THEN <<>>
    ELSE <<Line("section", ruleType, <<>>, <<>>, Len(filtered))>> \o
         RuleLines(ruleType, filtered,
                   IF withNoResolve THEN "classical_no_resolve" ELSE "classical")

\* The section one type contributes to a classical file.
ClassicalSection(ruleSet, ruleType, includeAll, withNoResolve) ==
    IF ClassicalSkips(ruleSet, ruleType, includeAll, withNoResolve) THEN <<>>
    ELSE SectionLines(ruleType, Filtered(ruleSet, ruleType), withNoResolve)

RECURSIVE ClassicalSections(_, _, _, _)
ClassicalSections(ruleSet, types, includeAll, withNoResolve) ==
    IF types = <<>> THEN <<>>
    ELSE ClassicalSection(ruleSet, Head(types), includeAll, withNoResolve) \o
         ClassicalSections(ruleSet, Tail(types), includeAll, withNoResolve)

\* The header comments of a classical file: two or three title lines, the
\* no-resolve note and the sorting note.
ClassicalHeader(includeAll) ==
    IF includeAll
    THEN <<CommentLine, CommentLine, CommentLine, CommentLine>>
    ELSE <<CommentLine, CommentLine, CommentLine, CommentLine, CommentLine>>

\* The two files of exportClassical around the sections `body`.
ClassicalAround(header, body) ==
    IF body = <<>>
    THEN [yaml |-> header \o <<PayloadLine, PlaceholderLine>>,
          list |-> header \o <<PlaceholderLine>>]
    ELSE [yaml |-> header \o <<PayloadLine>> \o body, list |-> header \o body]

\* The two files exportClassical writes.
ClassicalFiles(ruleSet, includeAll, withNoResolve) ==
    ClassicalAround(ClassicalHeader(includeAll),
                    ClassicalSections(ruleSet, orderedTypes, includeAll, withNoResolve))

AllDialects == {"classical_all", "classical_all_no_resolve"}
NoResolveDialects == {"classical_no_resolve", "classical_all_no_resolve"}

\* What the exporter of a dialect writes for ruleSet.
DialectFiles(ruleSet, dialect) ==
    IF dialect \in {"domain", "ipcidr"}
    THEN PlainFiles(PlainEntries(ruleSet, dialect))
    ELSE ClassicalFiles(ruleSet, dialect \in AllDialects, dialect \in NoResolveDialects)

\* Filesystem operations of one rule-set in Export: MkdirAll, then for each
\* dialect os.Create of the .yaml and of the .list file.
OpsPerRuleSet == 1 + 2 * Len(Dialects)

FileKey(name, dialect, ext) == <<name, dialect, ext>>

\* The dialects whose two files are created and written when the failOp-th
\* filesystem operation of the rule-set fails (0: none fails).
FullDialects(failOp) ==
    {k \in 1..Len(Dialects) : failOp = 0 \/ failOp > 2 * k + 1}

\* The dialect whose .yaml is created and whose .list cannot be.
HalfDialects(failOp) == {k \in 1..Len(Dialects) : failOp = 2 * k + 1}

\* The files one rule-set's part of Export leaves: a dialect whose two files
\* were created is written in full; when the .list cannot be created the
\* .yaml exists and is empty; nothing later is touched.
ExportRuleSet(files, ruleSet, failOp) ==
    [key \in {FileKey(ruleSet.Name, Dialects[k], "yaml") :
                 k \in FullDialects(failOp) \cup HalfDialects(failOp)}
             \cup {FileKey(ruleSet.Name, Dialects[k], "list") :
                      k \in FullDialects(failOp)} |->
        IF \E k \in HalfDialects(failOp) : key[2] = Dialects[k] THEN <<>>
        ELSE DialectFiles(ruleSet, key[2])[key[3]]]
    @@ files

\* Export over the rule-sets in map order `order`; the failOp-th operation of
\* the failRs-th rule-set fails (failRs = 0: no operation fails).
RECURSIVE ExportFrom(_, _, _, _, _)
ExportFrom(files, order, i, failRs, failOp) ==
    IF i > Len(order) \/ (failRs # 0 /\ i > failRs) THEN files
    ELSE ExportFrom(ExportRuleSet(files, ruleSets[order[i]],
                                  IF i = failRs THEN failOp ELSE 0),
                    order, i + 1, failRs, failOp)

\* A variant of Export that stores the filtered sequences back.
Export_PersistsFilter(order, failRs, failOp) ==
    /\ last.op = "Deduplicate"
    /\ fs' = ExportFrom(fs, order, 1, failRs, failOp)
    /\ last' = [op |-> "Export", name |-> "", err |-> failRs # 0]
    /\ ruleSets' = [n \in DOMAIN ruleSets |->
                      [ruleSets[n] EXCEPT !.Rules =
                          [t \in DOMAIN ruleSets[n].Rules |-> Filtered(ruleSets[n], t)]]]
    /\ UNCHANGED <<disk, config, named, requested, nLoad, nSet>>

Export(order, failRs, failOp) ==
    /\ last.op = "Deduplicate"
    /\ fs' = ExportFrom(fs, order, 1, failRs, failOp)
    /\ last' = [op |-> "Export", name |-> "", err |-> failRs # 0]
    /\ UNCHANGED <<disk, config, ruleSets, named, requested, nLoad, nSet>>

\* GetStatistics: per rule-set and type, the number of stored entries.
GetStatistics(store) ==
    [n \in DOMAIN store |->
        [t \in DOMAIN store[n].Rules |-> Len(store[n].Rules[t])]]

---------------------------------------------------------------------------
(* Inputs: rule files on disk and filter configurations                    *)

File(lines) == [ok |-> TRUE, lines |-> lines]
NoFile == [ok |-> FALSE, lines |-> <<>>]
Pair(filters, excludes) == [filters |-> filters, excludes |-> excludes]
RuleLine(ruleType, payload) == ruleType \o Comma \o payload

Addr4 == <<"1", ".", "2", ".", "3", ".", "4">>
Addr4Mask == Addr4 \o <<"/", "3", "2">>
Addr6 == <<":", ":", "1">>
Net8 == <<"1", "0", ".", "0", ".", "0", ".", "0", "/", "8">>
XCom == <<"x", ".", "c", "o", "m">>
YCom == <<"y", ".", "c", "o", "m">>
Star == <<"*">>
AnyGlob == <<"*", "*">>

\* Addresses with and without a mask, with and without no-resolve.
CIDRInputs ==
    [ disk |->
        [p \in Paths |->
           IF p = "f1"
           THEN File(<< RuleLine(RuleTypeIPCIDR, Addr4),
                        RuleLine(RuleTypeIPCIDR, Addr4Mask),
                        RuleLine(RuleTypeIPCIDR6, Addr6),
                        RuleLine(RuleTypeIPSuffix, Addr6 \o Comma \o <<"x">>) >>)
           ELSE File(<< RuleLine(RuleTypeIPCIDR, Net8 \o Comma \o NoResolve),
                        RuleLine(RuleTypeIPCIDR, Net8),
                        RuleLine(RuleTypeSrcIPCIDR, Addr4),
                        RuleLine(RuleTypeDomain, XCom) >>)],
      config |->
        { Pair(<<>>, <<>>),
          \* filters IP-CIDR*,*/*   excludes */*,no-resolve
          Pair(<< RuleTypeIPCIDR \o Star \o Comma \o Star \o Slash \o Star >>,
               << Star \o Slash \o Star \o Comma \o NoResolve >>) } ]

\* Port ranges with equal starts, ASNs with and without the AS prefix.
PortInputs ==
    [ disk |->
        [p \in Paths |->
           IF p = "f1"
           THEN File(<< RuleLine(RuleTypeDstPort, <<"8", "0", "-", "9", "0">>),
                        RuleLine(RuleTypeDstPort, <<"8", "0", "-", "1", "0", "0">>),
                        RuleLine(RuleTypeIPASN, <<"A", "S", "1">>) >>)
           ELSE File(<< RuleLine(RuleTypeDstPort, <<"1", "0", "0", "-", "2", "0", "0">>),
                        RuleLine(RuleTypeDstPort, <<"2", "0", "-", "3", "0">>),
                        RuleLine(RuleTypeIPASN, <<"1">>) >>)],
      config |->
        { Pair(<<>>, <<>>),
          \* filters [ , DST-PORT,*   excludes [ , *,1*
          Pair(<< <<"[">>, RuleTypeDstPort \o Comma \o Star >>,
               << <<"[">>, Star \o Comma \o <<"1">> \o Star >>) } ]

\* Domain kinds, list markers, comments and YAML noise.
DomainInputs ==
    [ disk |->
        [p \in Paths |->
           IF p = "f1"
           THEN File(<< RuleLine(RuleTypeDomain, XCom),
                        RuleLine(RuleTypeDomainSuffix, XCom),
                        <<"-", " ">> \o RuleLine(RuleTypeDomainSuffix, <<".">> \o XCom),
                        RuleLine(RuleTypeDomainKeyword, <<"x">>) >>)
           ELSE File(<< RuleLine(RuleTypeDomainSuffix, <<"+", ".">> \o XCom),
                        RuleLine(<<"d", "o", "m", "a", "i", "n">>, YCom),
                        <<"#", " ", "x">>,
                        <<"p", "a", "y", "l", "o", "a", "d", ":">> >>)],
      config |->
        { \* filters **   excludes DOMAIN,*
          Pair(<<AnyGlob>>, << RuleTypeDomain \o Comma \o Star >>),
          \* filters ""   (a single empty pattern)
          Pair(<< <<>> >>, <<>>) } ]

\* Types outside the traversal order, odd option strings, NETWORK values
\* inside and outside the priority map, a missing file.
MiscInputs ==
    [ disk |->
        [p \in Paths |->
           IF p = "f1"
           THEN File(<< RuleLine(RuleTypeMatch, <<"x">>),
                        RuleLine(<<"f", "o", "o">>, <<"b", "a", "r">>),
                        RuleLine(RuleTypeIPCIDR, Net8 \o Comma \o <<"x">> \o NoResolve),
                        Comma,
                        <<"-", " ", "#", " ">> \o RuleLine(RuleTypeDomain, XCom),
                        RuleLine(RuleTypeNetwork, <<"k">>),
                        RuleLine(RuleTypeNetwork, <<"t", "c", "p">>),
                        RuleLine(RuleTypeNetwork, <<"I", "C", "M", "P">>),
                        RuleLine(RuleTypeNetwork, <<"j">>) >>)
           ELSE NoFile],
      config |->
        { Pair(<<>>, <<>>),
          \* filters **   excludes FOO,*
          Pair(<<AnyGlob>>, << <<"F", "O", "O">> \o Comma \o Star >>) } ]

Inputs == {CIDRInputs, PortInputs, DomainInputs, MiscInputs}

---------------------------------------------------------------------------
(* The state machine                                                       *)

Init ==
    /\ \E in \in Inputs : disk = in.disk /\ config = in.config
    /\ ruleSets = <<>>
    /\ fs = <<>>
    /\ last = [op |-> "NewOptimizer", name |-> "", err |-> FALSE]
    /\ named = {}
    /\ requested = <<>>
    /\ nLoad = 0
    /\ nSet = 0
    /\ pool = <<>> /\ requests = <<>>
    /\ ruleFiles = <<>> /\ tasks = <<>> /\ worker = <<>> /\ ctxDone = FALSE
    /\ local = <<>> /\ process = <<>>
    /\ goroutines = <<>> /\ excludedSources = {} /\ source = "" /\ result = -1

MinOf(a, b) == IF a < b THEN a ELSE b

\* The calls processRulesets makes on one Optimizer: loads and filter
\* settings (here in any order and for any name), then Deduplicate (here
\* possibly more than once), then one Export, after which the Optimizer is
\* dropped.  Deduplicate and Export range over their maps in any order, and
\* any one of the first filesystem operations of a rule-set may fail.
Next ==
    \/ \E path \in Paths, name \in RuleSetNames :
          LoadRuleFile(path, name) /\ UNCHANGED <<poolVars, clientVars, loaderVars>>
    \/ \E name \in RuleSetNames, c \in config :
          SetRulesetFilters(name, c.filters, c.excludes) /\ UNCHANGED <<poolVars, clientVars, loaderVars>>
    \/ Deduplicate /\ UNCHANGED <<poolVars, clientVars, loaderVars>>
    \/ \E order \in MapOrders(DOMAIN ruleSets), failRs \in 0..Cardinality(DOMAIN ruleSets),
          failOp \in 0..MinOf(MaxFsFail, OpsPerRuleSet) :
          /\ (failRs = 0) = (failOp = 0)
          /\ Export(order, failRs, failOp)
          /\ UNCHANGED <<poolVars, clientVars, loaderVars>>

Spec == Init /\ [][Next]_vars

---------------------------------------------------------------------------
(* The proxy pool (package proxy) and the downloads of package loader      *)

\* ProxyType of a URL scheme (iota order of the const block); -1 for a
\* scheme NewPool rejects.
ProxyTypeOf(scheme) ==
    CASE scheme = "socks5" -> 0
      [] scheme = "socks4" -> 1
      [] scheme = "https" -> 2
      [] scheme = "http" -> 3
      [] OTHER -> -1

\* The bubble sort on Type swaps only neighbours with a greater Type before
\* a smaller one, so proxies of one Type keep their configured order.
sortProxiesByPriority(proxies) ==
    LET OfType(n) == SelectSeq(proxies, LAMBDA p : p.Type = n)
    IN  OfType(0) \o OfType(1) \o OfType(2) \o OfType(3)

\* NewPool(proxyURLs, enabled); a URL is modelled by its scheme and its
\* place in the configured list.
NewPool(schemes, enabled) ==
    IF ~enabled
    THEN [proxies |-> <<>>, enabled |-> FALSE, current |-> 0, err |-> FALSE]
    ELSE IF \E i \in 1..Len(schemes) : ProxyTypeOf(schemes[i]) = -1
    THEN [proxies |-> <<>>, enabled |-> TRUE, current |-> 0, err |-> TRUE]
    ELSE [proxies |-> sortProxiesByPriority(
                         [i \in 1..Len(schemes) |->
                             [URL |-> i, Type |-> ProxyTypeOf(schemes[i])]]),
          enabled |-> TRUE, current |-> 0, err |-> FALSE]

\* The proxy the client of GetHTTPClient goes through: the URL of
\* proxies[current % len], or 0 for a direct connection.
GetHTTPClient(p) ==
    IF ~p.enabled \/ Len(p.proxies) = 0 THEN 0
    ELSE p.proxies[(p.current % Len(p.proxies)) + 1].URL

\* One download: the client is taken from the pool and the request is made;
\* it succeeds or fails.  The pool is not touched on either outcome.
LoadURLWithUA(ok) ==
    /\ ~pool.err
    /\ Len(requests) < MaxRequests
    /\ requests' = Append(requests, [proxy |-> GetHTTPClient(pool), ok |-> ok])
    /\ UNCHANGED pool

\* Pool.NextProxy.  No code of the repository calls it; a client of the
\* package may.
NextProxy ==
    /\ ~pool.err
    /\ pool' = IF ~pool.enabled \/ Len(pool.proxies) = 0 THEN pool
               ELSE [pool EXCEPT !.current = (pool.current + 1) % Len(pool.proxies)]
    /\ UNCHANGED requests

Schemes == {"socks5", "http", "https", "ftp"}

PoolInit ==
    /\ \E n \in 0..MaxProxies : \E schemes \in [1..n -> Schemes], enabled \in BOOLEAN :
          pool = NewPool(schemes, enabled)
    /\ requests = <<>>
    /\ disk = <<>> /\ config = {} /\ ruleSets = <<>> /\ fs = <<>> /\ last = <<>>
    /\ named = {} /\ requested = <<>> /\ nLoad = 0 /\ nSet = 0
    /\ ruleFiles = <<>> /\ tasks = <<>> /\ worker = <<>> /\ ctxDone = FALSE
    /\ local = <<>> /\ process = <<>>
    /\ goroutines = <<>> /\ excludedSources = {} /\ source = "" /\ result = -1

PoolNext ==
    \/ \E ok \in BOOLEAN : LoadURLWithUA(ok) /\ UNCHANGED <<vars, clientVars, loaderVars>>
    \/ NextProxy /\ UNCHANGED <<vars, clientVars, loaderVars>>

PoolSpec == PoolInit /\ [][PoolNext]_poolVars

---------------------------------------------------------------------------
(* Client.ProcessRuleFiles (package github): the download workers          *)

maxRetries == 3

Idle == [pc |-> "idle", file |-> 0, retry |-> 0, err |-> FALSE, content |-> "none"]

\* The result of a rule file is sent on the results channel.
SendResult(f, res) == ruleFiles' = [ruleFiles EXCEPT ![f].result = res]

\* for task := range tasks, up to the retry loop: a file that exists is
\* handed back without a download unless overwriteFiles is set.
ReceiveTask(w) ==
    /\ worker[w].pc = "idle"
    /\ tasks # <<>>
    /\ tasks' = Tail(tasks)
    /\ IF local[Head(tasks)] # "absent" /\ ~process.overwriteFiles
       THEN SendResult(Head(tasks), "ok") /\ UNCHANGED worker
       ELSE /\ worker' = [worker EXCEPT ![w] = [Idle EXCEPT !.pc = "download",
                                                            !.file = Head(tasks)]]
            /\ UNCHANGED ruleFiles
    /\ UNCHANGED <<ctxDone, local, process>>

\* retry > 0: after the sleep, the select on ctx.Done() sets the err of the
\* worker; its break leaves the select, not the retry loop.
SelectDone(w) ==
    /\ worker[w].pc = "retry"
    /\ worker' = [worker EXCEPT ![w].pc = "download",
                                ![w].err = IF ctxDone THEN TRUE ELSE @]
    /\ ruleFiles' = [ruleFiles EXCEPT ![worker[w].file].observed = @ \/ ctxDone]
    /\ UNCHANGED <<tasks, ctxDone, local, process>>

\* One pass of the retry loop from DownloadContents on.  reader, _, err :=
\* declares an err of the loop body, so neither outcome is stored in the err
\* of the worker.  A request with a cancelled context fails.
DownloadContents(w, ok) ==
    /\ worker[w].pc = "download"
    /\ ctxDone => ~ok
    /\ worker' = [worker EXCEPT ![w] =
          IF ok THEN [@ EXCEPT !.pc = "finish", !.content = "data"]
          ELSE IF @.retry = maxRetries THEN [@ EXCEPT !.pc = "finish"]
          ELSE [@ EXCEPT !.pc = "retry", !.retry = @ + 1]]
    /\ ruleFiles' = [ruleFiles EXCEPT ![worker[w].file] =
          [@ EXCEPT !.attempts = @ + 1,
                    !.succeeded = @ \/ ok,
                    !.afterSuccess = IF ruleFiles[worker[w].file].succeeded THEN @ + 1 ELSE @,
                    !.afterObserved = IF ruleFiles[worker[w].file].observed THEN @ + 1 ELSE @]]
    /\ UNCHANGED <<tasks, ctxDone, local, process>>

\* After the retry loop: a worker whose err is set counts the file as failed;
\* otherwise saveFile writes content to the local path, and the file is
\* failed if that fails and handed back if not.
AfterRetries(w, saved) ==
    /\ worker[w].pc = "finish"
    /\ worker' = [worker EXCEPT ![w] = Idle]
    /\ IF worker[w].err \/ ~saved
       THEN /\ SendResult(worker[w].file, "failed")
            /\ process' = [process EXCEPT !.failedCount = @ + 1]
            /\ UNCHANGED local
       ELSE /\ SendResult(worker[w].file, "ok")
            /\ local' = [local EXCEPT ![worker[w].file] = worker[w].content]
            /\ UNCHANGED process
    /\ UNCHANGED <<tasks, ctxDone>>

\* The caller cancels ctx.
Cancel ==
    /\ ~ctxDone
    /\ ~process.done
    /\ ctxDone' = TRUE
    /\ UNCHANGED <<ruleFiles, tasks, worker, local, process>>

\* The results are collected once every worker has left its loop: the files
\* without an error are returned, and an error if there is none of them
\* (an empty ruleFiles is returned as it is).
ProcessRuleFiles ==
    /\ ~process.done
    /\ tasks = <<>>
    /\ \A w \in DOMAIN worker : worker[w].pc = "idle"
    /\ LET ok == {f \in DOMAIN ruleFiles : ruleFiles[f].result = "ok"}
       IN  process' = [process EXCEPT !.done = TRUE, !.files = ok,
                             !.err = ok = {} /\ Len(ruleFiles) > 0]
    /\ UNCHANGED <<ruleFiles, tasks, worker, ctxDone, local>>

ClientInit ==
    /\ \E n \in 0..MaxFiles : \E exists \in [1..n -> {"absent", "old"}], overwriteFiles \in BOOLEAN :
          /\ ruleFiles = [f \in 1..n |->
                 [result |-> "none", attempts |-> 0, succeeded |-> FALSE,
                  afterSuccess |-> 0, observed |-> FALSE, afterObserved |-> 0]]
          /\ tasks = [f \in 1..n |-> f]
          /\ local = exists
          /\ process = [done |-> FALSE, files |-> {}, err |-> FALSE,
                           failedCount |-> 0, overwriteFiles |-> overwriteFiles]
    /\ worker = [w \in 1..downloadThreads |-> Idle]
    /\ ctxDone = FALSE
    /\ disk = <<>> /\ config = {} /\ ruleSets = <<>> /\ fs = <<>> /\ last = <<>>
    /\ named = {} /\ requested = <<>> /\ nLoad = 0 /\ nSet = 0
    /\ pool = <<>> /\ requests = <<>>
    /\ goroutines = <<>> /\ excludedSources = {} /\ source = "" /\ result = -1

ClientNext ==
    \/ \E w \in DOMAIN worker : ReceiveTask(w) /\ UNCHANGED <<vars, poolVars, loaderVars>>
    \/ \E w \in DOMAIN worker : SelectDone(w) /\ UNCHANGED <<vars, poolVars, loaderVars>>
    \/ \E w \in DOMAIN worker, ok \in BOOLEAN :
          DownloadContents(w, ok) /\ UNCHANGED <<vars, poolVars, loaderVars>>
    \/ \E w \in DOMAIN worker, saved \in BOOLEAN :
          AfterRetries(w, saved) /\ UNCHANGED <<vars, poolVars, loaderVars>>
    \/ Cancel /\ UNCHANGED <<vars, poolVars, loaderVars>>
    \/ ProcessRuleFiles /\ UNCHANGED <<vars, poolVars, loaderVars>>

ClientSpec == ClientInit /\ [][ClientNext]_clientVars

---------------------------------------------------------------------------
(* RulesLoader.LoadAllRules (package loader): one goroutine per rule-set   *)

\* NewRulesLoader: NewLoader(proxyPool, 10).
maxWorkers == 10

\* The rule-sets of the configuration all list one and the same source and
\* nothing else, so their goroutines differ only in how far they are.  A
\* goroutine is at "check" before isSourceExcluded, at "download" while
\* rl.loader.Load is in flight, at "mark" once the source is loaded, and has
\* returned from loadRuleset at "took" (the source in its files) or at
\* "skipped" (no file).
Positions == {"check", "download", "mark", "took", "skipped"}

\* One goroutine goes from one position to another.
Move(from, to) ==
    /\ goroutines[from] > 0
    /\ goroutines' = [goroutines EXCEPT ![from] = @ - 1, ![to] = @ + 1]

\* loadRuleset up to the load of the source: a source found in
\* excludedSources is skipped; a local file is found or not; a URL whose
\* save path exists is used as cached, and is downloaded otherwise, through
\* rl.loader.Load, which takes no slot of any semaphore.
isSourceExcluded(outcome) ==
    /\ IF "s" \in excludedSources THEN Move("check", "skipped")
       ELSE CASE outcome = "error" -> Move("check", "skipped")
              [] outcome = "found" -> Move("check", "mark")
              [] outcome = "download" -> source = "url" /\ Move("check", "download")
    /\ UNCHANGED <<excludedSources, source, result>>

\* rl.loader.Load returns: the content is saved, or the source is given up.
Load(ok) ==
    /\ Move("download", IF ok THEN "mark" ELSE "skipped")
    /\ UNCHANGED <<excludedSources, source, result>>

\* files = append(files, filePath); rl.markSourceAsExcluded(source).
markSourceAsExcluded ==
    /\ Move("mark", "took")
    /\ excludedSources' = excludedSources \cup {"s"}
    /\ UNCHANGED <<source, result>>

\* wg.Wait() is over: the rule-sets with files are returned.
LoadAllRules ==
    /\ result = -1
    /\ \A p \in {"check", "download", "mark"} : goroutines[p] = 0
    /\ result' = goroutines["took"]
    /\ UNCHANGED <<goroutines, excludedSources, source>>

LoaderInit ==
    /\ \E n \in 1..MaxRuleSets :
          goroutines = [p \in Positions |-> IF p = "check" THEN n ELSE 0]
    /\ excludedSources = {}
    /\ source \in {"url", "file"}
    /\ result = -1
    /\ disk = <<>> /\ config = {} /\ ruleSets = <<>> /\ fs = <<>> /\ last = <<>>
    /\ named = {} /\ requested = <<>> /\ nLoad = 0 /\ nSet = 0
    /\ pool = <<>> /\ requests = <<>>
    /\ ruleFiles = <<>> /\ tasks = <<>> /\ worker = <<>> /\ ctxDone = FALSE
    /\ local = <<>> /\ process = <<>>

LoaderNext ==
    \/ \E outcome \in {"error", "found", "download"} :
          isSourceExcluded(outcome) /\ UNCHANGED <<vars, poolVars, clientVars>>
    \/ \E ok \in BOOLEAN : Load(ok) /\ UNCHANGED <<vars, poolVars, clientVars>>
    \/ markSourceAsExcluded /\ UNCHANGED <<vars, poolVars, clientVars>>
    \/ LoadAllRules /\ UNCHANGED <<vars, poolVars, clientVars>>

LoaderSpec == LoaderInit /\ [][LoaderNext]_loaderVars

---------------------------------------------------------------------------
(* Properties                                                              *)

Exported == last.op = "Export"
ExportedOK == last.op = "Export" /\ ~last.err

NoDuplicates(s) == \A i, j \in 1..Len(s) : s[i] = s[j] => i = j

\* The rule lines of a file.
RuleLinesOf(lines) == {lines[i] : i \in {j \in 1..Len(lines) : lines[j].k = "rule"}}

\* The stored entries behind the rule lines of type ruleType, in file order.
RECURSIVE SrcsOf(_, _)
SrcsOf(lines, ruleType) ==
    IF lines = <<>> THEN <<>>
    ELSE (IF Head(lines).k = "rule" /\ Head(lines).type = ruleType
          THEN <<Head(lines).src>> ELSE <<>>) \o SrcsOf(Tail(lines), ruleType)

\* Whether the glob pattern matches "TYPE,rule"; an error is no match.
Matches(pattern, ruleType, rule) == Match(pattern, FullRule(ruleType, rule)) = "match"

MatchesSome(patterns, ruleType, rule) ==
    \E i \in 1..Len(patterns) : Matches(patterns[i], ruleType, rule)

\* The rules the filter semantics lets through.
Passes(ruleSet, ruleType, rule) ==
    /\ ruleSet.Filters = <<>> \/ MatchesSome(ruleSet.Filters, ruleType, rule)
    /\ ~MatchesSome(ruleSet.Excludes, ruleType, rule)

PassingRules(ruleSet, ruleType) ==
    LET pass(rule) == Passes(ruleSet, ruleType, rule)
    IN  SelectSeq(ruleSet.Rules[ruleType], pass)

\* The comma-separated tokens of a written line.
Tokens(text) == Range(Split(text, Comma))

ListFile(name, dialect) == FileKey(name, dialect, "list")

\* C1: a second Deduplicate right after a Deduplicate leaves every
\* per-(rule-set, type) sequence as the first one left it.
C1_DeduplicateIdempotent ==
    [][(last.op = "Deduplicate" /\ last'.op = "Deduplicate") => ruleSets' = ruleSets]_vars

\* C2: after Deduplicate no sequence of any rule-set and type holds two
\* string-identical entries.
C2_NoDuplicatesAfterDeduplicate ==
    last.op = "Deduplicate" =>
        \A n \in DOMAIN ruleSets : \A t \in DOMAIN ruleSets[n].Rules :
            NoDuplicates(ruleSets[n].Rules[t])

\* C3: the sequence Deduplicate leaves for a type is the same for every
\* order in which the map of distinct strings can be ranged over.
C3_DeduplicateDeterministic ==
    [][last'.op = "Deduplicate" =>
          \A n \in DOMAIN ruleSets : \A t \in DOMAIN ruleSets[n].Rules :
              \A other \in DedupType(t, ruleSets[n].Rules[t]) :
                  ruleSets'[n].Rules[t] = other]_vars

\* C4: no rule line of any exported file comes from a stored rule whose
\* "TYPE,rule" string matches an exclude pattern of its rule-set.
C4_ExcludeWins ==
    Exported =>
        \A key \in DOMAIN fs : \A l \in RuleLinesOf(fs[key]) :
            ~MatchesSome(ruleSets[key[1]].Excludes, l.type, l.src)

\* C4 witness: an export of a rule-set that holds a rule matching both one of
\* its filters and one of its excludes.
C4_Witness ==
    /\ ExportedOK
    /\ \E n \in DOMAIN ruleSets : \E t \in DOMAIN ruleSets[n].Rules :
          \E i \in 1..Len(ruleSets[n].Rules[t]) :
              /\ MatchesSome(ruleSets[n].Filters, t, ruleSets[n].Rules[t][i])
              /\ MatchesSome(ruleSets[n].Excludes, t, ruleSets[n].Rules[t][i])
              /\ t \in Range(orderedTypes)

\* C5: applyRuleFilters returns, in stored order, exactly the rules that
\* match a filter (or all, without filters) and match no exclude, a pattern
\* in error matching nothing; the rules of a type written to a file are that
\* subsequence, which classical_all carries for every type of its traversal.
C5_FilterResult ==
    /\ \A n \in DOMAIN ruleSets : \A t \in DOMAIN ruleSets[n].Rules :
          applyRuleFilters(ruleSets[n].Rules[t], t, ruleSets[n].Filters, ruleSets[n].Excludes)
              = PassingRules(ruleSets[n], t)
    /\ Exported =>
          \A key \in DOMAIN fs : \A t \in DOMAIN ruleSets[key[1]].Rules :
              /\ key[3] = "list" =>
                    SrcsOf(fs[key], t) \in {<<>>, PassingRules(ruleSets[key[1]], t)}
              /\ (key[3] = "list" /\ key[2] = "classical_all" /\ t \in Range(orderedTypes)) =>
                    SrcsOf(fs[key], t) = PassingRules(ruleSets[key[1]], t)

\* C5 witness: an export under filters that hold a malformed pattern, where
\* filtering keeps some rules of a type and drops others.
C5_Witness ==
    /\ ExportedOK
    /\ \E n \in DOMAIN ruleSets : \E t \in DOMAIN ruleSets[n].Rules :
          /\ \E i \in 1..Len(ruleSets[n].Filters) : BadPattern(ruleSets[n].Filters[i])
          /\ \E i \in 1..Len(ruleSets[n].Excludes) : BadPattern(ruleSets[n].Excludes[i])
          /\ PassingRules(ruleSets[n], t) # <<>>
          /\ PassingRules(ruleSets[n], t) # ruleSets[n].Rules[t]
          /\ SrcsOf(fs[ListFile(n, "classical_all")], t) = PassingRules(ruleSets[n], t)

\* C6: after an Export in which no filesystem operation failed, each
\* rule-set has its twelve files, and a file without rule lines holds the
\* placeholder.
C6_AllFilesWritten ==
    ExportedOK =>
        \A n \in DOMAIN ruleSets : \A k \in 1..Len(Dialects) : \A ext \in {"yaml", "list"} :
            /\ FileKey(n, Dialects[k], ext) \in DOMAIN fs
            /\ \/ RuleLinesOf(fs[FileKey(n, Dialects[k], ext)]) # {}
               \/ PlaceholderLine \in Range(fs[FileKey(n, Dialects[k], ext)])

\* C6 witness: a successful export of a rule-set that holds rules, all of
\* them removed by its filters, next to a rule-set written with rule lines.
C6_Witness ==
    /\ ExportedOK
    /\ \E n \in DOMAIN ruleSets :
          /\ DOMAIN ruleSets[n].Rules # {}
          /\ \A t \in DOMAIN ruleSets[n].Rules : PassingRules(ruleSets[n], t) = <<>>
          /\ \A k \in 1..Len(Dialects) :
                PlaceholderLine \in Range(fs[ListFile(n, Dialects[k])])
    /\ \E n \in DOMAIN ruleSets :
          RuleLinesOf(fs[ListFile(n, "domain")]) # {}

\* C7: the classical file holds no DOMAIN, DOMAIN-SUFFIX, IP-CIDR or IP-CIDR6
\* line; the classical_no_resolve file holds no DOMAIN or DOMAIN-SUFFIX line
\* and, once written, every IP-CIDR and IP-CIDR6 rule that passes the filters.
C7_ReducedClassical ==
    Exported =>
        \A key \in DOMAIN fs :
            /\ key[2] = "classical" =>
                  \A l \in RuleLinesOf(fs[key]) :
                      l.type \notin domainListTypes \cup ipcidrListTypes
            /\ key[2] = "classical_no_resolve" =>
                  /\ \A l \in RuleLinesOf(fs[key]) : l.type \notin domainListTypes
                  /\ fs[key] # <<>> =>
                        \A t \in ipcidrListTypes \cap DOMAIN ruleSets[key[1]].Rules :
                            SrcsOf(fs[key], t) = PassingRules(ruleSets[key[1]], t)

\* C7 witness: an export of a rule-set with DOMAIN and IP-CIDR rules whose
\* classical_no_resolve file carries an IP-CIDR line.
C7_Witness ==
    /\ ExportedOK
    /\ \E n \in DOMAIN ruleSets :
          /\ {RuleTypeDomain, RuleTypeIPCIDR, RuleTypeSrcIPCIDR} \subseteq DOMAIN ruleSets[n].Rules
          /\ SrcsOf(fs[ListFile(n, "classical_no_resolve")], RuleTypeIPCIDR) # <<>>
          /\ SrcsOf(fs[ListFile(n, "classical")], RuleTypeSrcIPCIDR) # <<>>
          /\ SrcsOf(fs[ListFile(n, "domain")], RuleTypeDomain) # <<>>

\* C8: after a successful Export the classical_all and
\* classical_all_no_resolve files carry, for every type held in the Store,
\* every rule that passes the filters and excludes.
C8_AllKindsInClassicalAll ==
    ExportedOK =>
        \A n \in DOMAIN ruleSets : \A t \in DOMAIN ruleSets[n].Rules :
            \A d \in AllDialects :
                SrcsOf(fs[ListFile(n, d)], t) = PassingRules(ruleSets[n], t)

\* C9: in the classical files an IP-CIDR or IP-CIDR6 line has a no-resolve
\* token exactly when the file is a no-resolve variant.
C9_NoResolveToken ==
    Exported =>
        \A key \in DOMAIN fs : \A l \in RuleLinesOf(fs[key]) :
            (key[2] \notin {"domain", "ipcidr"} /\ l.type \in ipcidrListTypes) =>
                ((key[2] \in NoResolveDialects) = (NoResolve \in Tokens(l.text)))

\* C10: every entry of the ipcidr file comes from a stored IP-CIDR or
\* IP-CIDR6 rule, and none has a no-resolve token.
C10_IPCIDRDialect ==
    Exported =>
        \A key \in DOMAIN fs : \A l \in RuleLinesOf(fs[key]) :
            key[2] = "ipcidr" =>
                /\ l.type \in {RuleTypeIPCIDR, RuleTypeIPCIDR6}
                /\ l.type \in DOMAIN ruleSets[key[1]].Rules
                /\ l.src \in Range(ruleSets[key[1]].Rules[l.type])
                /\ \A part \in Tokens(l.text) : TrimSpace(part) # NoResolve

\* C10 witness: an export of a rule-set holding SRC-IP-CIDR rules and an
\* IP-CIDR rule with the no-resolve option, which reaches the ipcidr file.
C10_Witness ==
    /\ ExportedOK
    /\ \E n \in DOMAIN ruleSets :
          /\ RuleTypeSrcIPCIDR \in DOMAIN ruleSets[n].Rules
          /\ \E l \in RuleLinesOf(fs[ListFile(n, "ipcidr")]) :
                NoResolve \in Tokens(l.src)

\* The rule lines of a file, in file order, as <<type, text>> pairs.
RECURSIVE WrittenRules(_)
WrittenRules(lines) ==
    IF lines = <<>> THEN <<>>
    ELSE (IF Head(lines).k = "rule"
          THEN << <<Head(lines).type, Head(lines).text>> >> ELSE <<>>)
         \o WrittenRules(Tail(lines))

\* The canonical wildcard form of a domain suffix: +. is put in front of
\* what remains of s without a leading +. or a leading dot.
Canonical(s) ==
    IF Len(s) >= 2 /\ s[1] = "+" /\ s[2] = "." THEN s
    ELSE IF Len(s) >= 1 /\ s[1] = "." THEN <<"+">> \o s
    ELSE <<"+", ".">> \o s

\* The rules of ruleType that pass the filters, or none without the type.
PassingOrNone(ruleSet, ruleType) ==
    IF ruleType \in DOMAIN ruleSet.Rules THEN PassingRules(ruleSet, ruleType) ELSE <<>>

\* What the domain file is to list: the passing DOMAIN rules as stored,
\* then the passing DOMAIN-SUFFIX rules in canonical form.
DomainExpected(ruleSet) ==
    LET exact == PassingOrNone(ruleSet, RuleTypeDomain)
        suffix == PassingOrNone(ruleSet, RuleTypeDomainSuffix)
    IN  [i \in 1..Len(exact) |-> <<RuleTypeDomain, exact[i]>>] \o
        [i \in 1..Len(suffix) |-> <<RuleTypeDomainSuffix, Canonical(suffix[i])>>]

\* C11: the two domain files of a rule-set list exactly its filtered DOMAIN
\* rules as stored, followed by its filtered DOMAIN-SUFFIX rules in +. form,
\* and nothing of any other type.
C11_DomainDialect ==
    Exported =>
        \A key \in DOMAIN fs :
            (key[2] = "domain" /\ FileKey(key[1], "domain", "list") \in DOMAIN fs) =>
                WrittenRules(fs[key]) = DomainExpected(ruleSets[key[1]])

\* C11 witness: an export of a rule-set holding DOMAIN-KEYWORD rules whose
\* filters remove its DOMAIN rules and keep a DOMAIN-SUFFIX rule that is
\* rewritten on the way to the domain file.
C11_Witness ==
    /\ ExportedOK
    /\ \E n \in DOMAIN ruleSets :
          /\ {RuleTypeDomain, RuleTypeDomainSuffix, RuleTypeDomainKeyword}
                 \subseteq DOMAIN ruleSets[n].Rules
          /\ PassingRules(ruleSets[n], RuleTypeDomain) = <<>>
          /\ \E l \in RuleLinesOf(fs[ListFile(n, "domain")]) :
                l.type = RuleTypeDomainSuffix /\ l.text # l.src
    /\ \E n \in DOMAIN ruleSets :
          \E l \in RuleLinesOf(fs[ListFile(n, "domain")]) : l.type = RuleTypeDomain

\* Every string of up to MaxSuffixLen characters over +, dot and a letter.
SuffixSamples == UNION {[1..n -> {"+", ".", "x"}] : n \in 0..MaxSuffixLen}

StartsWithPlusDot(s) == Len(s) >= 2 /\ s[1] = "+" /\ s[2] = "."

\* C12: the canonicalization of the domain dialect gives a result for every
\* string, the result starts with +., and canonicalizing it again changes
\* nothing; .x.com, x.com and +.x.com all become +.x.com.  This holds for
\* every short string and for every DOMAIN-SUFFIX line of an exported file.
C12_SuffixCanonical ==
    /\ \A s \in SuffixSamples :
          /\ StartsWithPlusDot(SuffixForm(s))
          /\ SuffixForm(SuffixForm(s)) = SuffixForm(s)
    /\ \A s \in {XCom, <<".">> \o XCom, <<"+", ".">> \o XCom} :
          SuffixForm(s) = <<"+", ".">> \o XCom
    /\ Exported =>
          \A key \in DOMAIN fs : \A l \in RuleLinesOf(fs[key]) :
              (key[2] = "domain" /\ l.type = RuleTypeDomainSuffix) =>
                  /\ StartsWithPlusDot(l.text)
                  /\ SuffixForm(l.text) = l.text

\* C12 witness: an export whose domain file has +.x.com from each of the
\* stored entries x.com, .x.com and +.x.com.
C12_Witness ==
    /\ ExportedOK
    /\ \E n \in DOMAIN ruleSets :
          \A s \in {XCom, <<".">> \o XCom, <<"+", ".">> \o XCom} :
              \E l \in RuleLinesOf(fs[ListFile(n, "domain")]) :
                  /\ l.type = RuleTypeDomainSuffix
                  /\ l.src = s
                  /\ l.text = <<"+", ".">> \o XCom

\* C13: in no exported file does a rule line appear more than once.
C13_NoRepeatedLines ==
    Exported => \A key \in DOMAIN fs : NoDuplicates(WrittenRules(fs[key]))

\* The address part of a stored entry: what precedes its first comma.
AddressPart(r) == IF Index(r, Comma) = 0 THEN r ELSE SubSeq(r, 1, Index(r, Comma) - 1)

\* The entry with its default mask: nothing changes when the address part
\* has a mask; otherwise /128 (address with a colon) or /32 goes between
\* the address part and the comma-options.
WithMask(r) ==
    LET addr == AddressPart(r)
        rest == SubSeq(r, Len(addr) + 1, Len(r))
    IN  IF Contains(addr, Slash) THEN r
        ELSE IF Contains(addr, Colon) THEN addr \o <<"/", "1", "2", "8">> \o rest
        ELSE addr \o <<"/", "3", "2">> \o rest

\* C14: a Deduplicate call leaves, for every type of the IP-CIDR families,
\* exactly the entries it found, each with its default mask added when it had
\* none and unchanged otherwise; so every entry has a mask in its address part.
C14_CIDRMask ==
    [][last'.op = "Deduplicate" =>
          \A n \in DOMAIN ruleSets : \A t \in DOMAIN ruleSets[n].Rules \cap CIDRTypes :
              /\ Range(ruleSets'[n].Rules[t]) = {WithMask(r) : r \in Range(ruleSets[n].Rules[t])}
              /\ \A r \in Range(ruleSets'[n].Rules[t]) : Contains(AddressPart(r), Slash)]_vars

\* C14 witness: after Deduplicate, a Store with 1.2.3.4/32, ::1/128, the
\* suffix ::1/128,x with its option after the mask, and 10.0.0.0/8 as loaded.
C14_Witness ==
    /\ last.op = "Deduplicate"
    /\ \E n \in DOMAIN ruleSets :
          /\ {RuleTypeIPCIDR, RuleTypeIPCIDR6, RuleTypeIPSuffix} \subseteq DOMAIN ruleSets[n].Rules
          /\ Addr4 \o <<"/", "3", "2">> \in Range(ruleSets[n].Rules[RuleTypeIPCIDR])
          /\ Net8 \o Comma \o NoResolve \in Range(ruleSets[n].Rules[RuleTypeIPCIDR])
          /\ Addr6 \o <<"/", "1", "2", "8">> \in Range(ruleSets[n].Rules[RuleTypeIPCIDR6])
          /\ Addr6 \o <<"/", "1", "2", "8", ",", "x">>
                 \in Range(ruleSets[n].Rules[RuleTypeIPSuffix])

\* The lines of the files that can be opened.
DiskLines == UNION {Range(disk[p].lines) : p \in {q \in Paths : disk[q].ok}}

CountOf(c, s) == Cardinality({i \in 1..Len(s) : s[i] = c})

\* A line with exactly one comma and nothing but blanks on both sides of it.
OneCommaEmptyParts(line) ==
    /\ CountOf(",", line) = 1
    /\ \A i \in 1..Len(line) : line[i] \in {",", " "}

\* C15: ParseRule returns the malformed-line error, and no rule, for every
\* line that has exactly one comma and empty parts on both sides of it, as
\* seen once LoadRuleFile has read the files.
C15_MalformedLine ==
    (last.op = "LoadRuleFile" /\ ~last.err) =>
        \A line \in DiskLines :
            OneCommaEmptyParts(line) => ParseRule(line).kind = "error"

\* A line that is a - list marker followed by a comment: after the marker
\* and blanks, the remainder begins with #, ; or //.
ListMarkerComment(line) ==
    LET t == TrimSpace(line)
        r == IF t = <<>> THEN <<>> ELSE TrimSpace(Tail(t))
    IN  /\ t # <<>> /\ t[1] = "-"
        /\ r # <<>>
        /\ \/ r[1] \in {"#", ";"}
           \/ Len(r) >= 2 /\ r[1] = "/" /\ r[2] = "/"

\* C16: a line whose remainder after the - list marker begins with a comment
\* marker is skipped and yields no rule, also when it contains a comma, as
\* seen once LoadRuleFile has read the files.
C16_ListMarkerComment ==
    (last.op = "LoadRuleFile" /\ ~last.err) =>
        \A line \in DiskLines :
            ListMarkerComment(line) => ParseRule(line).kind = "skip"

\* C17: every key of a rule-set's Rules map is a member of the closed
\* RuleType vocabulary.
C17_ClosedVocabulary ==
    \A n \in DOMAIN ruleSets : DOMAIN ruleSets[n].Rules \subseteq RuleTypes

\* The rule-set with the given filter and exclude lists.
WithLists(ruleSet, lists) ==
    [ruleSet EXCEPT !.Filters = lists.filters, !.Excludes = lists.excludes]

\* C18: SetRulesetFilters fails, leaving the Store as it was, exactly when
\* no earlier LoadRuleFile call named the rule-set; otherwise, also when
\* that call could not open its file, it succeeds and the rule-set has the
\* given filters and excludes.
C18_SetRulesetFilters ==
    [][last'.op = "SetRulesetFilters" =>
          IF last'.name \notin named
          THEN last'.err /\ ruleSets' = ruleSets
          ELSE /\ ~last'.err
               /\ last'.name \in DOMAIN ruleSets
               /\ ruleSets' = [ruleSets EXCEPT ![last'.name] =
                                   WithLists(@, requested'[last'.name])]]_vars

\* The rules stored under ruleType in the rule-set called name, if any.
StoredRules(store, name, ruleType) ==
    IF name \in DOMAIN store /\ ruleType \in DOMAIN store[name].Rules
    THEN store[name].Rules[ruleType] ELSE <<>>

\* The entries the lines of a file add under ruleType: payload and, after a
\* comma, the options of each line that ParseRule makes a rule of that type.
RECURSIVE EntriesOfType(_, _)
EntriesOfType(lines, ruleType) ==
    IF lines = <<>> THEN <<>>
    ELSE LET rule == ParseRule(Head(lines))
         IN  (IF rule.kind = "rule" /\ rule.Type = ruleType
              THEN <<rule.Payload \o (IF rule.Options = <<>> THEN <<>>
                                      ELSE Comma \o rule.Options)>>
              ELSE <<>>) \o EntriesOfType(Tail(lines), ruleType)

\* The types under which the lines of a file add an entry.
TypesOf(lines) ==
    {ParseRule(lines[i]).Type : i \in {j \in 1..Len(lines) : ParseRule(lines[j]).kind = "rule"}}

\* The types under which the rule-set called name holds an entry list.
StoredTypes(store, name) ==
    IF name \in DOMAIN store THEN DOMAIN store[name].Rules ELSE {}

C20_FilterOrderIndependent ==
    ExportedOK =>
        \A n \in DOMAIN ruleSets \cap DOMAIN requested :
            \A k \in 1..Len(Dialects) : \A ext \in {"yaml", "list"} :
                fs[FileKey(n, Dialects[k], ext)] =
                    DialectFiles(WithLists(ruleSets[n], requested[n]), Dialects[k])[ext]

---------------------------------------------------------------------------
\* C21: Export, successful or failed, and the filtering it performs leave
\* the Store as it was: every rule-set's per-type sequences, filters and
\* excludes are the same after the call, and GetStatistics returns the same
\* counts, so rules the filters remove from the files are still held.
C21_ExportFrame ==
    [][last'.op = "Export" =>
          /\ ruleSets' = ruleSets
          /\ GetStatistics(ruleSets') = GetStatistics(ruleSets)]_vars

\* An Export has written files from which the filters removed a rule that
\* the Store holds.
C21_Witness ==
    /\ Exported
    /\ \E n \in DOMAIN ruleSets : \E t \in DOMAIN ruleSets[n].Rules :
          Len(Filtered(ruleSets[n], t)) < Len(ruleSets[n].Rules[t])

---------------------------------------------------------------------------
\* The decimal number a string of digits denotes.
RECURSIVE Decimal(_)
Decimal(s) ==
    IF s = <<>> THEN 0
    ELSE Decimal(SubSeq(s, 1, Len(s) - 1)) * 10 + (Ord[s[Len(s)]] - Ord["0"])

\* The integer after "/" in the address part of r.
MaskOf(r) ==
    LET addr == AddressPart(r)
    IN  Decimal(SubSeq(addr, Index(addr, Slash) + 1, Len(addr)))

AfterDeduplicate == last.op = "Deduplicate"

\* C22: after Deduplicate every IP-CIDR-family sequence is ordered by mask
\* length descending with lexicographic tie-break: of two adjacent entries
\* a, b either mask(a) > mask(b), or the masks are equal and a < b as
\* strings.
C22_CIDROrder ==
    AfterDeduplicate =>
        \A n \in DOMAIN ruleSets : \A t \in DOMAIN ruleSets[n].Rules \cap CIDRTypes :
            LET rules == ruleSets[n].Rules[t]
            IN  \A i \in 1..(Len(rules) - 1) :
                    \/ MaskOf(rules[i]) > MaskOf(rules[i + 1])
                    \/ /\ MaskOf(rules[i]) = MaskOf(rules[i + 1])
                       /\ StrLess(rules[i], rules[i + 1])

---------------------------------------------------------------------------
PortTypes == {RuleTypeDstPort, RuleTypeSrcPort, RuleTypeInPort}

\* The substring of r before its first "-".
RangeStart(r) == IF Index(r, Dash) = 0 THEN r ELSE SubSeq(r, 1, Index(r, Dash) - 1)

Port100 == <<"1", "0", "0", "-", "2", "0", "0">>
Port20 == <<"2", "0", "-", "3", "0">>

---------------------------------------------------------------------------
\* The place of a NETWORK value among tcp, udp, icmp; 0 when it is none.
NetworkRank(r) ==
    CASE ToLower(r) = <<"t", "c", "p">> -> 1
      [] ToLower(r) = <<"u", "d", "p">> -> 2
      [] ToLower(r) = <<"i", "c", "m", "p">> -> 3
      [] OTHER -> 0

\* C24: after Deduplicate of a NETWORK sequence holding any mix of
\* recognized and unrecognized values, every tcp entry precedes every udp
\* entry, which precedes every icmp entry (compared case-insensitively), and
\* the unrecognized entries are in lexicographic order among themselves.
C24_NetworkOrder ==
    AfterDeduplicate =>
        \A n \in DOMAIN ruleSets :
            RuleTypeNetwork \in DOMAIN ruleSets[n].Rules =>
                LET rules == ruleSets[n].Rules[RuleTypeNetwork]
                IN  \A i, j \in 1..Len(rules) :
                      /\ (/\ NetworkRank(rules[i]) # 0
                          /\ NetworkRank(rules[i]) < NetworkRank(rules[j])) => i < j
                      /\ (/\ NetworkRank(rules[i]) = 0
                          /\ NetworkRank(rules[j]) = 0
                          /\ StrLess(rules[i], rules[j])) => i < j

---------------------------------------------------------------------------
\* The group of a type in the traversal: domain kinds, IP kinds, geo kinds,
\* process kinds, port kinds, network/UID/inbound/DSCP kinds, rule-set
\* reference and sub-rule; 0 for any other type.
GroupOf(t) ==
    CASE t \in {RuleTypeDomain, RuleTypeDomainSuffix, RuleTypeDomainKeyword,
                RuleTypeDomainWildcard, RuleTypeDomainRegex} -> 1
      [] t \in CIDRTypes \cup {RuleTypeIPASN, RuleTypeSrcIPASN} -> 2
      [] t \in {RuleTypeGeoIP, RuleTypeSrcGeoIP, RuleTypeGeoSite} -> 3
      [] t \in {RuleTypeProcessName, RuleTypeProcessPath,
                RuleTypeProcessNameRegex, RuleTypeProcessPathRegex} -> 4
      [] t \in PortTypes -> 5
      [] t \in {RuleTypeNetwork, RuleTypeUid, RuleTypeInType, RuleTypeInUser,
                RuleTypeInName, RuleTypeDSCP} -> 6
      [] t \in {RuleTypeRuleSet, RuleTypeSubRules} -> 7
      [] OTHER -> 0

ClassicalDialects ==
    {"classical", "classical_no_resolve", "classical_all", "classical_all_no_resolve"}

ClassicalKeys == {key \in DOMAIN fs : key[2] \in ClassicalDialects}

\* The places of the section comments of a file.
SectionsIn(lines) == {i \in 1..Len(lines) : lines[i].k = "section"}

\* The rule lines of the section whose comment is at place i: those after i
\* and before the next section comment.
SectionRules(lines, i) ==
    {j \in (i + 1)..Len(lines) :
        /\ lines[j].k = "rule"
        /\ \A m \in (i + 1)..j : lines[m].k # "section"}

\* a is before b in the file.
SectionBefore(lines, a, b) ==
    \E i, j \in SectionsIn(lines) :
        i < j /\ lines[i].type = a /\ lines[j].type = b

\* C25: in every classical file the type sections appear in one fixed
\* relative order (domain kinds, IP kinds, geo kinds, process kinds, port
\* kinds, network/UID/inbound/DSCP kinds, rule-set reference/sub-rule),
\* whatever the order in which rules and types were loaded, and the count in
\* each section's comment equals the number of rule lines of the section.
C25_SectionOrder ==
    Exported =>
        \A key \in ClassicalKeys :
            LET lines == fs[key]
            IN  /\ \A i, j \in SectionsIn(lines) :
                      i < j => /\ GroupOf(lines[i].type) # 0
                               /\ GroupOf(lines[i].type) <= GroupOf(lines[j].type)
                               /\ lines[i].type # lines[j].type
                /\ \A other \in ClassicalKeys : \A i, j \in SectionsIn(lines) :
                      i < j => ~SectionBefore(fs[other], lines[j].type, lines[i].type)
                /\ \A i \in SectionsIn(lines) :
                      /\ lines[i].count = Cardinality(SectionRules(lines, i))
                      /\ \A j \in SectionRules(lines, i) : lines[j].type = lines[i].type
                /\ \A j \in 1..Len(lines) :
                      lines[j].k = "rule" =>
                          \E i \in SectionsIn(lines) : j \in SectionRules(lines, i)

\* An Export has written, for two rule-sets that hold rules of a common
\* type, a classical file with sections of two groups, one of them with
\* more than one rule line.
C25_Witness ==
    /\ ExportedOK
    /\ \E a, b \in DOMAIN ruleSets :
          /\ a # b
          /\ \E t \in DOMAIN ruleSets[a].Rules \cap DOMAIN ruleSets[b].Rules :
                /\ Len(ruleSets[a].Rules[t]) >= 1
                /\ Len(ruleSets[b].Rules[t]) >= 1
    /\ \E key \in ClassicalKeys : \E i, j \in SectionsIn(fs[key]) :
          /\ GroupOf(fs[key][i].type) < GroupOf(fs[key][j].type)
          /\ (fs[key][i].count >= 2 \/ fs[key][j].count >= 2)

---------------------------------------------------------------------------
\* The proxy after proxy u in the pool, cyclically.
ProxyAfter(u) ==
    LET i == CHOOSE i \in 1..Len(pool.proxies) : pool.proxies[i].URL = u
    IN  pool.proxies[(i % Len(pool.proxies)) + 1].URL

\* C26: the proxy pool rotates on failure: when a request made through the
\* current proxy fails, the next request is made through the next proxy of
\* the pool (cyclically), so with at least two proxies a failing proxy is
\* not used for two consecutive requests.
C26_RotateOnFailure ==
    \A i \in 1..(Len(requests) - 1) :
        (requests[i].proxy # 0 /\ ~requests[i].ok) =>
            /\ requests[i + 1].proxy = ProxyAfter(requests[i].proxy)
            /\ Len(pool.proxies) >= 2 => requests[i + 1].proxy # requests[i].proxy

---------------------------------------------------------------------------
\* Every one of the maxRetries + 1 download attempts of f failed.
AllAttemptsFailed(f) ==
    ruleFiles[f].attempts = maxRetries + 1 /\ ~ruleFiles[f].succeeded

\* C27: ProcessRuleFiles returns only files that were actually downloaded:
\* a file for which every one of the maxRetries+1 download attempts fails is
\* counted as failed, is absent from the returned list and has no file
\* written at its local path, and when every file fails the call returns an
\* error.
C27_FailedFilesNotReturned ==
    process.done =>
        /\ \A f \in DOMAIN ruleFiles :
              AllAttemptsFailed(f) =>
                  /\ ruleFiles[f].result = "failed"
                  /\ f \notin process.files
                  /\ local[f] \in {"absent", "old"}
        /\ process.failedCount >=
              Cardinality({f \in DOMAIN ruleFiles : AllAttemptsFailed(f)})
        /\ (Len(ruleFiles) > 0 /\ \A f \in DOMAIN ruleFiles : AllAttemptsFailed(f))
              => process.err

\* C28: in the retry loop, once a worker has observed between retries that
\* the context is cancelled it makes no further download attempt for that
\* file and reports the file as failed; in every case a file is attempted
\* at most maxRetries+1 times and never again after its first successful
\* attempt.
C28_RetryLoop ==
    \A f \in DOMAIN ruleFiles :
        /\ ruleFiles[f].afterObserved = 0
        /\ (ruleFiles[f].observed /\ ruleFiles[f].result # "none")
              => ruleFiles[f].result = "failed"
        /\ ruleFiles[f].attempts <= maxRetries + 1
        /\ ruleFiles[f].afterSuccess = 0

---------------------------------------------------------------------------
\* C29: across the concurrently running loadRuleset goroutines of
\* LoadAllRules, a source listed in several rule-sets is loaded into at most
\* one rule-set's file list: once one rule-set has taken it, every other
\* rule-set skips it, under every interleaving.
C29_SourceTakenOnce == goroutines["took"] <= 1

\* C30: during LoadAllRules the number of downloads in flight never exceeds
\* the Loader's maxWorkers, whatever the number of configured rule-sets and
\* URLs.
C30_BoundedDownloads == goroutines["download"] <= maxWorkers

====
